---------------------------- MODULE Spec2Model ----------------------------
(***************************************************************************)
(* Model of the DOCX -> HTML converter: DocumentTransformer (paragraph    *)
(* style resolution), StyleMapper (style map, warning classification and  *)
(* summary) and ConverterService.convert_file with its controller.        *)
(*                                                                         *)
(* Strings are real strings: concatenation is \o, slicing is SubSeq, so   *)
(* substring tests, endswith and f-string formatting are computed.  The   *)
(* Cyrillic literals of the source are written in an ASCII transliteration *)
(* (one distinct ASCII literal per distinct source literal):              *)
(*   "Zagolovok No"      for the heading name prefix (style_mapper.py:13)  *)
(*   "Osnovnoj tekst"    for the body text name      (style_mapper.py:16)  *)
(*   "Podpis k tablice"  for the table caption name  (style_mapper.py:20)  *)
(***************************************************************************)
EXTENDS Integers, Sequences, FiniteSets, Bags, TLC

VARIABLES
    element,      \* paragraph handed to the transform hook
    resolved,     \* transform_paragraph(element), Unset before the call
    resolved2,    \* transform_paragraph(resolved), Unset before the call
    style_map,    \* ConverterService.style_map, built in __init__
    warnings_in,  \* argument of analyze_style_warnings
    categorized,  \* its result, Unset before the call
    pc,           \* position of the request in convert_file / the controller
    filename,     \* file.filename of the upload
    reads,        \* number of file.read() calls of the request
    renders,      \* number of mammoth.convert_to_html calls of the request
    content,      \* the bytes file.read() returned
    rendered,     \* what mammoth.convert_to_html returned: value and messages
    outcome       \* what convert_file returned or raised, Unset while running

vars == <<element, resolved, resolved2, style_map, warnings_in, categorized,
          pc, filename, reads, renders, content, rendered, outcome>>

resolveVars == <<element, resolved, resolved2>>
classifyVars == <<warnings_in, categorized>>
convertVars == <<pc, filename, reads, renders, content, rendered, outcome>>

----------------------------------------------------------------------------
(* Python values *)

\* Python's None object; distinct from the string "None"
PyNone == "<py:None>"

\* a variable whose value has not been computed yet
Unset == [unset |-> TRUE]

\* truthiness of an optional string: None and "" are falsy
Truthy(v) == v # PyNone /\ v # ""

\* x in lst, for a list
In(x, lst) == \E i \in DOMAIN lst : lst[i] = x

\* needle in hay, for strings (None never contains anything here: the code
\* only applies it to strings)
Contains(needle, hay) ==
    \E i \in 1..(Len(hay) - Len(needle) + 1) :
        SubSeq(hay, i, i + Len(needle) - 1) = needle

\* s.endswith(suffix)
EndsWith(s, suffix) ==
    /\ Len(s) >= Len(suffix)
    /\ SubSeq(s, Len(s) - Len(suffix) + 1, Len(s)) = suffix

\* s.startswith(prefix)
StartsWith(s, prefix) ==
    /\ Len(s) >= Len(prefix)
    /\ SubSeq(s, 1, Len(prefix)) = prefix


----------------------------------------------------------------------------
(* DocumentTransformer *)

\* self.undefined_style_ids
undefined_style_ids ==
    <<"Style2", "Style4", "Style18", "20", "1", "a9", "ab", "24", "11", "30">>

\* the list literal of the heading branch
heading_style_ids == <<"11", "24">>

\* the list literal of the branch for paragraphs named "None"
informal_style_ids == <<"Style2", "Style4", "Style18">>

\* element.copy(style_id=..., style_name=...): every other field is kept
copy(e, id, name) == [e EXCEPT !.style_id = id, !.style_name = name]

\* mutant: the test of the style name is missing
transform_unstyled_id_only(e) ==
    IF ~Truthy(e.style_id)
    THEN copy(e, "Normal", "Osnovnoj tekst")
    ELSE e

\* third if: a paragraph with no style at all
transform_unstyled(e) ==
    IF ~Truthy(e.style_id) /\ ~Truthy(e.style_name)
    THEN copy(e, "Normal", "Osnovnoj tekst")
    ELSE e

\* mutant: the inner test of the style id is missing
transform_unnamed_any_id(e) ==
    IF e.style_name = "None" /\ Truthy(e.style_id)
    THEN copy(e, "Normal", "Osnovnoj tekst")
    ELSE transform_unstyled(e)

\* second if: a paragraph whose style name is the string "None"; when the
\* inner test fails control falls through to the third if
transform_unnamed(e) ==
    IF e.style_name = "None" /\ Truthy(e.style_id)
    THEN IF In(e.style_id, informal_style_ids)
         THEN copy(e, "Normal", "Osnovnoj tekst")
         ELSE transform_unstyled(e)
    ELSE transform_unstyled(e)

\* mutant: the heading levels are swapped
transform_heading_swapped(e) ==
    LET heading_level == IF e.style_id = "11" THEN 2 ELSE 1
    IN  copy(e, "Heading" \o ToString(heading_level),
                "Zagolovok No" \o ToString(heading_level))

\* mutant: the style id is formatted without its "Heading" prefix
transform_heading_bare(e) ==
    LET heading_level == IF e.style_id = "11" THEN 1 ELSE 2
    IN  copy(e, ToString(heading_level),
                "Zagolovok No" \o ToString(heading_level))

\* the heading branch: heading_level and the two f-strings
transform_heading(e) ==
    LET heading_level == IF e.style_id = "11" THEN 1 ELSE 2
    IN  copy(e, "Heading" \o ToString(heading_level),
                "Zagolovok No" \o ToString(heading_level))

\* first if: the paragraph's style id is one of undefined_style_ids
transform_paragraph(e) ==
    IF In(e.style_id, undefined_style_ids)
    THEN IF In(e.style_id, heading_style_ids)
         THEN transform_heading(e)
         ELSE IF e.style_id = "a9"
              THEN copy(e, "TableCaption", "Podpis k tablice")
              ELSE copy(e, "Normal", "Osnovnoj tekst")
    ELSE transform_unnamed(e)

----------------------------------------------------------------------------
(* StyleMapper *)

\* self.russian_headings
russian_headings ==
    <<"Zagolovok No1", "Zagolovok No2", "Zagolovok No3",
      "Zagolovok No4", "Zagolovok No5", "Zagolovok No6">>

\* self.text_styles
text_styles ==
    <<"Osnovnoj tekst", "Osnovnoj tekst (2)", "Osnovnoj tekst (3)",
      "Osnovnoj tekst1", "Obychnyj tekst", "Normal">>

\* self.special_styles, in insertion order: <<style name, css class>>
special_styles ==
    <<  <<"Podpis k tablice", "table-caption">>,
        <<"Drugoe", "other">>,
        <<"None", "default">>  >>

\* mutant: enumerate counts from 0
heading_mappings_from_zero ==
    [i \in DOMAIN russian_headings |->
        "p[style-name='" \o russian_headings[i] \o "'] => h" \o ToString(i - 1)
            \o ":fresh"]

\* the loop over enumerate(self.russian_headings, 1)
heading_mappings ==
    [i \in DOMAIN russian_headings |->
        "p[style-name='" \o russian_headings[i] \o "'] => h" \o ToString(i)
            \o ":fresh"]

\* the loop over self.text_styles
text_mappings ==
    [i \in DOMAIN text_styles |->
        "p[style-name='" \o text_styles[i] \o "'] => p:fresh"]

\* the loop over self.special_styles.items()
special_mappings ==
    [i \in DOMAIN special_styles |->
        LET style_name == special_styles[i][1]
            css_class  == special_styles[i][2]
        IN  IF css_class = "default"
            THEN "p[style-name='" \o style_name \o "'] => p:fresh"
            ELSE "p[style-name='" \o style_name \o "'] => p." \o css_class
                     \o ":fresh"]

\* the literal list of mappings.extend([...])
id_mappings ==
    <<"p[style-name='Osnovnoj tekst'] => p:fresh",
      "p[style-name='Zagolovok No1'] => h1:fresh",
      "p[style-name='Zagolovok No2'] => h2:fresh",
      "p[style-name='Podpis k tablice'] => p.table-caption:fresh",
      "p[style-name='TableCaption'] => p.table-caption:fresh",
      "p[style-name='Heading1'] => h1:fresh",
      "p[style-name='Heading2'] => h2:fresh",
      "p[style-name='Normal'] => p:fresh">>

\* sep.join(lst)
RECURSIVE join(_, _)
join(sep, lst) ==
    IF lst = <<>> THEN ""
    ELSE IF Len(lst) = 1 THEN lst[1]
    ELSE lst[1] \o sep \o join(sep, Tail(lst))

\* StyleMapper.create_style_mapping
create_style_mapping ==
    join("\n", heading_mappings \o text_mappings \o special_mappings
                   \o id_mappings)


\* mutant: the table branch also falls into the missing-element branch
categorize_both(cat, warning) ==
    IF Contains("was referenced but not defined", warning)
    THEN [cat EXCEPT !.undefined_styles = Append(@, warning)]
    ELSE IF Contains("Unrecognised paragraph style", warning)
    THEN [cat EXCEPT !.unrecognized_styles = Append(@, warning)]
    ELSE IF Contains("unrecognised element was ignored", warning)
    THEN IF Contains("w:tblPrEx", warning)
         THEN [cat EXCEPT !.table_formatting_ignored = Append(@, warning),
                          !.missing_elements = Append(@, warning)]
         ELSE [cat EXCEPT !.missing_elements = Append(@, warning)]
    ELSE [cat EXCEPT !.other_warnings = Append(@, warning)]

\* mutant: the test of the table marker is missing
categorize_no_table(cat, warning) ==
    IF Contains("was referenced but not defined", warning)
    THEN [cat EXCEPT !.undefined_styles = Append(@, warning)]
    ELSE IF Contains("Unrecognised paragraph style", warning)
    THEN [cat EXCEPT !.unrecognized_styles = Append(@, warning)]
    ELSE IF Contains("unrecognised element was ignored", warning)
    THEN [cat EXCEPT !.missing_elements = Append(@, warning)]
    ELSE [cat EXCEPT !.other_warnings = Append(@, warning)]

\* the body of the for loop of analyze_style_warnings, for one warning
categorize(cat, warning) ==
    IF Contains("was referenced but not defined", warning)
    THEN [cat EXCEPT !.undefined_styles = Append(@, warning)]
    ELSE IF Contains("Unrecognised paragraph style", warning)
    THEN [cat EXCEPT !.unrecognized_styles = Append(@, warning)]
    ELSE IF Contains("unrecognised element was ignored", warning)
    THEN IF Contains("w:tblPrEx", warning)
         THEN [cat EXCEPT !.table_formatting_ignored = Append(@, warning)]
         ELSE [cat EXCEPT !.missing_elements = Append(@, warning)]
    ELSE [cat EXCEPT !.other_warnings = Append(@, warning)]

\* the dict analyze_style_warnings starts from
empty_categorized ==
    [undefined_styles |-> <<>>, unrecognized_styles |-> <<>>,
     missing_elements |-> <<>>, table_formatting_ignored |-> <<>>,
     other_warnings |-> <<>>]

\* the for loop, from the dict built so far
RECURSIVE analyze_from(_, _)
analyze_from(cat, warnings) ==
    IF warnings = <<>> THEN cat
    ELSE analyze_from(categorize(cat, Head(warnings)), Tail(warnings))

\* StyleMapper.analyze_style_warnings
analyze_style_warnings(warnings) == analyze_from(empty_categorized, warnings)

\* mutant: the unrecognized clause is appended before the undefined clause
get_warning_summary_unrecognized_first(style_analysis) ==
    LET p1 == IF style_analysis.undefined_styles # <<>>
              THEN <<"Neopredelennye stili: "
                       \o ToString(Len(style_analysis.undefined_styles))>>
              ELSE <<>>
        p2 == IF style_analysis.unrecognized_styles # <<>>
              THEN <<"Neraspoznannye stili: "
                       \o ToString(Len(style_analysis.unrecognized_styles))>>
              ELSE <<>>
        p3 == IF style_analysis.table_formatting_ignored # <<>>
              THEN <<"Formatirovanie tablic proignorirovano (ozhidaemo)">>
              ELSE <<>>
        p4 == IF style_analysis.missing_elements # <<>>
              THEN <<"Propushhennye elementy: "
                       \o ToString(Len(style_analysis.missing_elements))>>
              ELSE <<>>
        summary_parts == p2 \o p1 \o p3 \o p4
    IN  IF summary_parts = <<>>
        THEN "Vse stili obrabotany uspeshno"
        ELSE join("; ", summary_parts)

\* StyleMapper.get_warning_summary
get_warning_summary(style_analysis) ==
    LET p1 == IF style_analysis.undefined_styles # <<>>
              THEN <<"Neopredelennye stili: "
                       \o ToString(Len(style_analysis.undefined_styles))>>
              ELSE <<>>
        p2 == IF style_analysis.unrecognized_styles # <<>>
              THEN <<"Neraspoznannye stili: "
                       \o ToString(Len(style_analysis.unrecognized_styles))>>
              ELSE <<>>
        p3 == IF style_analysis.table_formatting_ignored # <<>>
              THEN <<"Formatirovanie tablic proignorirovano (ozhidaemo)">>
              ELSE <<>>
        p4 == IF style_analysis.missing_elements # <<>>
              THEN <<"Propushhennye elementy: "
                       \o ToString(Len(style_analysis.missing_elements))>>
              ELSE <<>>
        summary_parts == p1 \o p2 \o p3 \o p4
    IN  IF summary_parts = <<>>
        THEN "Vse stili obrabotany uspeshno"
        ELSE join("; ", summary_parts)


----------------------------------------------------------------------------
(* ConverterService and the controller *)

\* str.lower() on one character (ASCII letters)
lower_char(c) ==
    LET upper == "ABCDEFGHIJKLMNOPQRSTUVWXYZ"
        lower == "abcdefghijklmnopqrstuvwxyz"
    IN  IF \E i \in 1..26 : SubSeq(upper, i, i) = c
        THEN LET i == CHOOSE i \in 1..26 : SubSeq(upper, i, i) = c
             IN  SubSeq(lower, i, i)
        ELSE c

\* str.lower()
RECURSIVE Lower(_)
Lower(s) == IF s = "" THEN "" ELSE lower_char(Head(s)) \o Lower(Tail(s))

\* HTTPException(status_code=..., detail=...)
HTTPException(code, text) ==
    [exception |-> "HTTPException", status_code |-> code, detail |-> text]

\* the except clause of convert_file: any exception e becomes a 500
conversion_error(e) ==
    HTTPException(500, "Oshibka pri konvertacii fajla: " \o e)

\* ConverterService._create_complete_html
create_complete_html(html_content, name) == "" \o html_content

\* [msg.message for msg in messages if msg.type == kind]
RECURSIVE messages_of_type(_, _)
messages_of_type(msgs, kind) ==
    IF msgs = <<>> THEN <<>>
    ELSE IF Head(msgs).type = kind
         THEN <<Head(msgs).message>> \o messages_of_type(Tail(msgs), kind)
         ELSE messages_of_type(Tail(msgs), kind)

\* mutant: the status is taken from the warnings instead of the errors
conversion_result_status_from_warnings(name, bytes, result) ==
    LET html_content == result.value
        warnings == messages_of_type(result.messages, "warning")
        errors == messages_of_type(result.messages, "error")
        style_analysis == analyze_style_warnings(warnings)
        warning_summary == get_warning_summary(style_analysis)
        complete_html == create_complete_html(html_content, name)
        status == IF warnings = <<>> THEN "success" ELSE "success_with_errors"
    IN  [original_filename |-> name,
         file_size |-> Len(bytes),
         html_content |-> html_content,
         complete_html |-> complete_html,
         conversion_warnings |-> warnings,
         conversion_errors |-> errors,
         style_analysis |-> style_analysis,
         warning_summary |-> warning_summary,
         warnings_count |-> Len(warnings),
         errors_count |-> Len(errors),
         status |-> status]

\* the dict convert_file returns, from the renderer's result
conversion_result(name, bytes, result) ==
    LET html_content == result.value
        warnings == messages_of_type(result.messages, "warning")
        errors == messages_of_type(result.messages, "error")
        style_analysis == analyze_style_warnings(warnings)
        warning_summary == get_warning_summary(style_analysis)
        complete_html == create_complete_html(html_content, name)
        status == IF errors = <<>> THEN "success" ELSE "success_with_errors"
    IN  [original_filename |-> name,
         file_size |-> Len(bytes),
         html_content |-> html_content,
         complete_html |-> complete_html,
         conversion_warnings |-> warnings,
         conversion_errors |-> errors,
         style_analysis |-> style_analysis,
         warning_summary |-> warning_summary,
         warnings_count |-> Len(warnings),
         errors_count |-> Len(errors),
         status |-> status]

----------------------------------------------------------------------------
(* Bounds and input sets *)

\* fragments the warnings of one list are concatenated from, at most
MaxFragments == 3
\* warnings handed to analyze_style_warnings, at most
MaxWarnings == 2
\* fragments the messages of one renderer result are concatenated from, at most
MaxRenderFragments == 2
\* messages the renderer returns, at most
MaxMessages == 2

\* the four phrases the classifier looks for, the renderer's message about
\* table property exceptions, and a near miss of it
Fragments ==
    {"was referenced but not defined", "Unrecognised paragraph style",
     "unrecognised element was ignored", "w:tblPrEx",
     "An unrecognised element was ignored: w:tblPrEx",
     "Unrecognised element was ignored: w:tblPr"}

\* texts of exactly n fragments
RECURSIVE Texts(_)
Texts(n) ==
    IF n = 0 THEN {""}
    ELSE {t \o f : t \in Texts(n - 1), f \in Fragments}

\* lists of at most n texts that have at most f fragments between them
RECURSIVE TextLists(_, _)
TextLists(n, f) ==
    IF n = 0 THEN {<<>>}
    ELSE {<<>>} \cup
         UNION {{<<t>> \o rest : t \in Texts(k), rest \in TextLists(n - 1, f - k)}
                    : k \in 0..f}

WarningLists == TextLists(MaxWarnings, MaxFragments)

\* the renderer's messages: texts tagged "warning" or "error"
MessageLists ==
    UNION {{[i \in DOMAIN texts |-> [type |-> tags[i], message |-> texts[i]]]
                : tags \in [DOMAIN texts -> {"warning", "error"}]}
               : texts \in TextLists(MaxMessages, MaxRenderFragments)}

StyleIds ==
    {PyNone, "", "Style2", "Style4", "Style18", "20", "1", "a9", "ab", "24",
     "11", "30", "Heading1", "Heading2", "TableCaption", "Normal", "a",
     "Style3"}

StyleNames ==
    {PyNone, "", "None", "Zagolovok No1", "Zagolovok No2", "Podpis k tablice",
     "Osnovnoj tekst", "Normal", "heading 1"}

\* paragraphs the renderer hands to the transform hook
Elements ==
    [style_id : StyleIds, style_name : StyleNames,
     alignment : {PyNone, "center"}]

Filenames ==
    {PyNone, "", "a.docx", "A.DOCX", "b.Docx", ".docx", "a.doc", "docx",
     "a.docx.pdf", "a.docx ", "adocx", "a.pdf"}

\* upload payloads: empty, not a zip archive, a zip archive
Payloads == {"", "not a document", "PK document"}

----------------------------------------------------------------------------
(* The transform hook, called by the renderer once per paragraph *)

ResolveIdle == element = Unset /\ resolved = Unset /\ resolved2 = Unset
ClassifyIdle == warnings_in = <<>> /\ categorized = Unset
ConvertIdle ==
    /\ pc = "idle" /\ filename = PyNone /\ reads = 0 /\ renders = 0
    /\ content = PyNone /\ rendered = Unset /\ outcome = Unset

\* the renderer calls the hook on a paragraph
Transform ==
    /\ resolved = Unset
    /\ resolved' = transform_paragraph(element)
    /\ UNCHANGED <<element, resolved2, style_map, classifyVars, convertVars>>

\* the hook applied to its own result
TransformAgain ==
    /\ resolved # Unset /\ resolved2 = Unset
    /\ resolved2' = transform_paragraph(resolved)
    /\ UNCHANGED <<element, resolved, style_map, classifyVars, convertVars>>

\* the renderer moves on to the next paragraph of the document
NextParagraph ==
    /\ resolved # Unset
    /\ \E e \in Elements : element' = e
    /\ resolved' = Unset /\ resolved2' = Unset
    /\ UNCHANGED <<style_map, classifyVars, convertVars>>

InitResolve ==
    /\ element \in Elements /\ resolved = Unset /\ resolved2 = Unset
    /\ style_map = create_style_mapping
    /\ ClassifyIdle /\ ConvertIdle

NextResolve == Transform \/ TransformAgain \/ NextParagraph

SpecResolve == InitResolve /\ [][NextResolve]_vars

----------------------------------------------------------------------------
(* The classifier *)

\* the service hands a list of warnings to analyze_style_warnings
Analyze ==
    /\ categorized = Unset
    /\ categorized' = analyze_style_warnings(warnings_in)
    /\ UNCHANGED <<warnings_in, style_map, resolveVars, convertVars>>

InitClassify ==
    /\ warnings_in \in WarningLists /\ categorized = Unset
    /\ style_map = create_style_mapping
    /\ ResolveIdle /\ ConvertIdle

NextClassify == Analyze

SpecClassify == InitClassify /\ [][NextClassify]_vars

----------------------------------------------------------------------------
(* One request: the controller builds a ConverterService and awaits        *)
(* convert_file; pc is the statement convert_file has reached              *)

\* the controller receives an upload, constructs the service (which builds
\* the style map) and calls convert_file
Request ==
    /\ pc \in {"idle", "returned", "raised"}
    /\ \E f \in Filenames : filename' = f
    /\ style_map' = create_style_mapping
    /\ pc' = "validate"
    /\ reads' = 0 /\ renders' = 0
    /\ content' = PyNone /\ rendered' = Unset /\ outcome' = Unset
    /\ UNCHANGED <<resolveVars, classifyVars>>

\* mutant: the extension is tested without its dot
Validate_no_dot ==
    /\ pc = "validate"
    /\ IF ~Truthy(filename)
       THEN /\ outcome' = HTTPException(400, "Fajl ne vybran")
            /\ pc' = "raised"
       ELSE IF ~EndsWith(Lower(filename), "docx")
       THEN /\ outcome' = HTTPException(400, "Podderzhivajutsja tol'ko DOCX fajly")
            /\ pc' = "raised"
       ELSE /\ outcome' = outcome
            /\ pc' = "read"
    /\ UNCHANGED <<filename, reads, renders, content, rendered, style_map,
                   resolveVars, classifyVars>>

\* the two checks of file.filename, before the try block
Validate ==
    /\ pc = "validate"
    /\ IF ~Truthy(filename)
       THEN /\ outcome' = HTTPException(400, "Fajl ne vybran")
            /\ pc' = "raised"
       ELSE IF ~EndsWith(Lower(filename), ".docx")
       THEN /\ outcome' = HTTPException(400, "Podderzhivajutsja tol'ko DOCX fajly")
            /\ pc' = "raised"
       ELSE /\ outcome' = outcome
            /\ pc' = "read"
    /\ UNCHANGED <<filename, reads, renders, content, rendered, style_map,
                   resolveVars, classifyVars>>

\* content = await file.read() returns the upload's bytes
ReadUpload ==
    /\ pc = "read"
    /\ reads' = reads + 1
    /\ \E bytes \in Payloads : content' = bytes
    /\ pc' = "render"
    /\ UNCHANGED <<filename, renders, rendered, outcome, style_map,
                   resolveVars, classifyVars>>

\* await file.read() raises; the except clause of the try block catches it
ReadFails ==
    /\ pc = "read"
    /\ reads' = reads + 1
    /\ outcome' = conversion_error("read of the upload failed")
    /\ pc' = "raised"
    /\ UNCHANGED <<filename, renders, content, rendered, style_map,
                   resolveVars, classifyVars>>

\* mammoth.convert_to_html returns markup and messages; it needs a zip
\* archive to do so
RenderReturns ==
    /\ pc = "render"
    /\ StartsWith(content, "PK")
    /\ renders' = renders + 1
    /\ \E msgs \in MessageLists :
           rendered' = [value |-> "<p>text</p>", messages |-> msgs]
    /\ pc' = "assemble"
    /\ UNCHANGED <<filename, reads, content, outcome, style_map,
                   resolveVars, classifyVars>>

\* mutant: a failed render is attempted once more before it is reported
RenderRaises_retry ==
    /\ pc = "render"
    /\ renders' = renders + 1
    /\ IF renders = 0
       THEN outcome' = outcome /\ pc' = "render"
       ELSE outcome' = conversion_error("File is not a zip file")
                /\ pc' = "raised"
    /\ UNCHANGED <<filename, reads, content, rendered, style_map,
                   resolveVars, classifyVars>>

\* mammoth.convert_to_html raises (for a payload that is not a document, or
\* for any other reason); the except clause catches it
RenderRaises ==
    /\ pc = "render"
    /\ renders' = renders + 1
    /\ outcome' = conversion_error("File is not a zip file")
    /\ pc' = "raised"
    /\ UNCHANGED <<filename, reads, content, rendered, style_map,
                   resolveVars, classifyVars>>

\* the rest of the try block: split the messages, analyse the warnings,
\* build the summary and return the dict
Assemble ==
    /\ pc = "assemble"
    /\ outcome' = conversion_result(filename, content, rendered)
    /\ pc' = "returned"
    /\ UNCHANGED <<filename, reads, renders, content, rendered, style_map,
                   resolveVars, classifyVars>>

Init ==
    /\ ConvertIdle
    /\ style_map = create_style_mapping
    /\ ResolveIdle /\ ClassifyIdle

Next ==
    \/ Request
    \/ Validate
    \/ ReadUpload
    \/ ReadFails
    \/ RenderReturns
    \/ RenderRaises
    \/ Assemble

Spec == Init /\ [][Next]_vars


----------------------------------------------------------------------------
(* Claims about the transform hook, under SpecResolve *)

\* the ambiguous-id set and the informal-id set, as the specification lists
\* them
AmbiguousIds ==
    {"Style2", "Style4", "Style18", "20", "1", "a9", "ab", "24", "11", "30"}
InformalIds == {"Style2", "Style4", "Style18"}

\* the four canonical pairs <<style_id, style_name>>
CanonicalPairs ==
    {<<"Heading1", "Zagolovok No1">>, <<"Heading2", "Zagolovok No2">>,
     <<"TableCaption", "Podpis k tablice">>, <<"Normal", "Osnovnoj tekst">>}

\* the canonical pair documented for an ambiguous id
DocumentedPair(id) ==
    CASE id = "11" -> <<"Heading1", "Zagolovok No1">>
      [] id = "24" -> <<"Heading2", "Zagolovok No2">>
      [] id = "a9" -> <<"TableCaption", "Podpis k tablice">>
      [] OTHER     -> <<"Normal", "Osnovnoj tekst">>

PairOf(e) == <<e.style_id, e.style_name>>

\* the hook has been applied to the paragraph
Transformed == element # Unset /\ resolved # Unset

\* C1: a paragraph whose style id is in the ambiguous-id set resolves to the
\* pair documented for that id, whatever its style name is (absent, "None" or
\* anything else); the ids that are also informal ids resolve to the body
\* text pair like every other ambiguous id.
C1_AmbiguousIdResolvesToDocumentedPair ==
    (Transformed /\ element.style_id \in AmbiguousIds)
        => PairOf(resolved) = DocumentedPair(element.style_id)

\* C1 witness: ambiguous id "11" with the style name "None" became Heading1
C1_Witness ==
    /\ Transformed
    /\ element.style_id = "11" /\ element.style_name = "None"
    /\ PairOf(resolved) = <<"Heading1", "Zagolovok No1">>

\* C2: applying the hook to its own result changes nothing:
\* resolve(resolve(e)) = resolve(e) for every paragraph.
C2_ResolveIdempotent ==
    (Transformed /\ resolved2 # Unset) => resolved2 = resolved

\* C2 witness: a paragraph that the first application rewrote has been
\* resolved a second time
C2_Witness ==
    /\ Transformed /\ resolved2 # Unset
    /\ element.style_id = "11" /\ resolved # element

\* C3 as stated: a paragraph named "None" whose id is outside the informal
\* set (ids such as "11", "24", "a9" included) is returned unchanged.
C3_Original_NoneNameOutsideInformalUnchanged ==
    (Transformed /\ element.style_name = "None"
                 /\ element.style_id \notin InformalIds)
        => resolved = element

\* C3 amended: a paragraph named "None" whose id is outside the ambiguous-id
\* set (which contains the informal set), an absent or empty id included, is
\* returned unchanged.
C3_NoneNameOutsideAmbiguousUnchanged ==
    (Transformed /\ element.style_name = "None"
                 /\ element.style_id \notin AmbiguousIds)
        => resolved = element

\* C3 witness: a paragraph named "None" with no id at all came back unchanged
C3_Witness ==
    /\ Transformed
    /\ element.style_name = "None" /\ element.style_id = PyNone
    /\ resolved = element

\* the three cases in which the specification has the resolver rewrite
RewriteCase(e) ==
    \/ e.style_id \in AmbiguousIds
    \/ e.style_name = "None" /\ e.style_id \in InformalIds
    \/ e.style_id \in {PyNone, ""} /\ e.style_name \in {PyNone, ""}

\* C4 as stated: the result carries a canonical pair or is the input; it
\* carries a canonical pair exactly in the three rewrite cases; an element
\* with neither id nor name gets the body text pair; every other element is
\* returned unchanged.
C4_Original_CanonicalExactlyInRewriteCases ==
    Transformed =>
        /\ PairOf(resolved) \in CanonicalPairs \/ resolved = element
        /\ PairOf(resolved) \in CanonicalPairs <=> RewriteCase(element)
        /\ (element.style_id \in {PyNone, ""}
               /\ element.style_name \in {PyNone, ""})
              => PairOf(resolved) = <<"Normal", "Osnovnoj tekst">>
        /\ ~RewriteCase(element) => resolved = element

\* C4 amended: the result is the input with a canonical pair, or the input
\* unchanged; the element is rewritten exactly in the three rewrite cases
\* and then carries a canonical pair (the body text pair when it had
\* neither id nor name); every other element, one that already carries a
\* canonical pair included, is returned unchanged.
C4_RewrittenExactlyInRewriteCases ==
    Transformed =>
        /\ resolved # element <=> RewriteCase(element)
        /\ RewriteCase(element) =>
              /\ PairOf(resolved) \in CanonicalPairs
              /\ resolved = [element EXCEPT !.style_id = resolved.style_id,
                                            !.style_name = resolved.style_name]
        /\ (element.style_id \in {PyNone, ""}
               /\ element.style_name \in {PyNone, ""})
              => PairOf(resolved) = <<"Normal", "Osnovnoj tekst">>

\* C4 witness: a paragraph that already carries a canonical pair passed
\* through unchanged
C4_Witness ==
    /\ Transformed
    /\ PairOf(element) = <<"Normal", "Osnovnoj tekst">>
    /\ resolved = element


----------------------------------------------------------------------------
(* Claim about the style map, under SpecResolve *)

\* the lines of a text
Lines(s) ==
    LET breaks == {i \in 1..Len(s) : SubSeq(s, i, i) = "\n"}
        starts == {1} \cup {i + 1 : i \in breaks}
        stop(a) == CHOOSE i \in breaks \cup {Len(s) + 1} :
                       /\ i >= a
                       /\ \A j \in breaks : j >= a => i <= j
    IN  {SubSeq(s, a, stop(a) - 1) : a \in starts}

\* the text of the rule that maps a style-name selector to an output tag
RuleLine(selected, tag) ==
    "p[style-name='" \o selected \o "'] => " \o tag \o ":fresh"

\* a rule whose selector is the given literal
SelectsLiteral(line, selected) ==
    StartsWith(line, "p[style-name='" \o selected \o "'] => ")

\* the output tag documented for a canonical style id
DocumentedTag(id) ==
    CASE id = "Heading1"     -> "h1"
      [] id = "Heading2"     -> "h2"
      [] id = "TableCaption" -> "p.table-caption"
      [] id = "Normal"       -> "p"

\* C5: every canonical pair the hook emits has, in the style map the service
\* built, a rule whose selector is the canonical id and a rule whose selector
\* is the canonical name, and every rule with either selector gives the
\* documented tag (h1, h2, p.table-caption, p).
C5_EmittedStyleHasRule ==
    (Transformed /\ resolved # element) =>
        LET tag == DocumentedTag(resolved.style_id)
            rules == Lines(style_map)
        IN  /\ RuleLine(resolved.style_id, tag) \in rules
            /\ RuleLine(resolved.style_name, tag) \in rules
            /\ \A line \in rules :
                  (\/ SelectsLiteral(line, resolved.style_id)
                   \/ SelectsLiteral(line, resolved.style_name))
                      => line \in {RuleLine(resolved.style_id, tag),
                                   RuleLine(resolved.style_name, tag)}

\* C5 witness: the hook emitted the table caption pair and the style map has
\* the rule for its id
C5_Witness ==
    /\ Transformed
    /\ element.style_id = "a9"
    /\ PairOf(resolved) = <<"TableCaption", "Podpis k tablice">>
    /\ "p[style-name='TableCaption'] => p.table-caption:fresh"
           \in Lines(style_map)

----------------------------------------------------------------------------
(* Claims about the classifier, under SpecClassify *)

\* the five category lists, in the order of the dict
CategoryLists(cat) ==
    <<cat.undefined_styles, cat.unrecognized_styles, cat.missing_elements,
      cat.table_formatting_ignored, cat.other_warnings>>

\* how often a text occurs in a list
Occurrences(text, lst) == Cardinality({i \in DOMAIN lst : lst[i] = text})

\* the members of sub appear in lst in the same order
RECURSIVE IsSubsequence(_, _)
IsSubsequence(sub, lst) ==
    IF sub = <<>> THEN TRUE
    ELSE IF lst = <<>> THEN FALSE
    ELSE IF Head(sub) = Head(lst)
         THEN IsSubsequence(Tail(sub), Tail(lst))
         ELSE IsSubsequence(sub, Tail(lst))

Analyzed == categorized # Unset

\* C6: the lengths of the five category lists add up to the number of input
\* warnings, every occurrence of a warning text is in exactly one list (per
\* text, the occurrences in the lists add up to its occurrences in the
\* input, and the lists hold nothing else), and every list keeps the input
\* order.
C6_ClassifyTotalAndExclusive ==
    Analyzed =>
        LET lists == CategoryLists(categorized)
            texts == {warnings_in[i] : i \in DOMAIN warnings_in}
        IN  /\ Len(lists[1]) + Len(lists[2]) + Len(lists[3]) + Len(lists[4])
                   + Len(lists[5]) = Len(warnings_in)
            /\ \A k \in 1..5 : \A i \in DOMAIN lists[k] : lists[k][i] \in texts
            /\ \A t \in texts :
                  Occurrences(t, lists[1]) + Occurrences(t, lists[2])
                      + Occurrences(t, lists[3]) + Occurrences(t, lists[4])
                      + Occurrences(t, lists[5]) = Occurrences(t, warnings_in)
            /\ \A k \in 1..5 : IsSubsequence(lists[k], warnings_in)

\* C6 witness: two different warnings went to the same category, and a
\* warning that matches two patterns was classified
C6_Witness ==
    /\ Analyzed
    /\ Len(warnings_in) = 2 /\ warnings_in[1] # warnings_in[2]
    /\ Len(categorized.table_formatting_ignored) = 2

\* a text that has both the ignored-element phrase and the table marker
IgnoredTableText(text) ==
    /\ Contains("unrecognised element was ignored", text)
    /\ Contains("w:tblPrEx", text)

\* C7 as stated: a warning with both the ignored-element phrase and the
\* table marker goes to table_formatting_ignored and not to
\* missing_elements, whatever else it contains.
C7_Original_TableMarkerAlwaysWins ==
    Analyzed =>
        \A i \in DOMAIN warnings_in :
            IgnoredTableText(warnings_in[i]) =>
                /\ Occurrences(warnings_in[i],
                               categorized.table_formatting_ignored) > 0
                /\ Occurrences(warnings_in[i], categorized.missing_elements) = 0

\* C7 amended: a warning with both the ignored-element phrase and the table
\* marker never goes to missing_elements, and it goes to
\* table_formatting_ignored unless it also contains one of the two phrases
\* tested first ("was referenced but not defined", "Unrecognised paragraph
\* style"), which then decide its category.
C7_TableMarkerWinsOverMissingElement ==
    Analyzed =>
        \A i \in DOMAIN warnings_in :
            IgnoredTableText(warnings_in[i]) =>
                /\ Occurrences(warnings_in[i], categorized.missing_elements) = 0
                /\ (/\ ~Contains("was referenced but not defined",
                                 warnings_in[i])
                    /\ ~Contains("Unrecognised paragraph style",
                                 warnings_in[i]))
                     => Occurrences(warnings_in[i],
                                    categorized.table_formatting_ignored)
                            = Occurrences(warnings_in[i], warnings_in)

\* C7 witness: the renderer's table message, followed by other text, is in
\* table_formatting_ignored
C7_Witness ==
    /\ Analyzed
    /\ warnings_in = <<"An unrecognised element was ignored: w:tblPrEx"
                         \o "Unrecognised element was ignored: w:tblPr">>
    /\ categorized.table_formatting_ignored = warnings_in


----------------------------------------------------------------------------
(* Claims about convert_file, under Spec *)

\* convert_file has ended, by returning or by raising
Ended == pc \in {"returned", "raised"}

\* convert_file raised an HTTPException with this status code
RaisedWith(code) ==
    /\ pc = "raised"
    /\ "exception" \in DOMAIN outcome
    /\ outcome.status_code = code

\* the name ends in the extension .docx, in any letter case
HasDocxExtension(name) ==
    /\ Len(name) >= 5
    /\ SubSeq(name, Len(name) - 4, Len(name) - 4) = "."
    /\ SubSeq(name, Len(name) - 3, Len(name) - 3) \in {"d", "D"}
    /\ SubSeq(name, Len(name) - 2, Len(name) - 2) \in {"o", "O"}
    /\ SubSeq(name, Len(name) - 1, Len(name) - 1) \in {"c", "C"}
    /\ SubSeq(name, Len(name), Len(name)) \in {"x", "X"}

\* the name is absent, empty or lacks the extension
InvalidName(name) == name \in {PyNone, ""} \/ ~HasDocxExtension(name)

\* C8: a request whose filename is empty or lacks the .docx extension ends
\* with the status 400, and whenever a request ends with 400 no read of the
\* upload and no call of the renderer has happened.
C8_InvalidInputBeforeAnyRead ==
    /\ (pc \notin {"idle", "validate"} /\ InvalidName(filename))
          => RaisedWith(400)
    /\ RaisedWith(400) => reads = 0 /\ renders = 0

\* C8 witness: the name a.doc was rejected with 400 before any read
C8_Witness ==
    /\ filename = "a.doc" /\ RaisedWith(400)
    /\ reads = 0 /\ renders = 0

\* C9 as stated: a request with a valid filename has called the renderer
\* exactly once when it ends; if that call raised, the request ends with 500
\* and not with 400, and the renderer is never called a second time.
C9_Original_RendererCalledExactlyOnce ==
    /\ (Ended /\ ~InvalidName(filename)) => renders = 1
    /\ (pc = "raised" /\ renders >= 1) => RaisedWith(500)
    /\ renders <= 1

\* C9 amended: a request with a valid filename whose upload was read has
\* called the renderer exactly once when it ends, and a request whose read
\* failed ends with an error without having called it; if the renderer's call
\* raised, the request ends with 500 and not with 400, and the renderer is
\* never called a second time.
C9_RendererCalledOnceAfterRead ==
    /\ (Ended /\ ~InvalidName(filename) /\ content # PyNone) => renders = 1
    /\ (Ended /\ ~InvalidName(filename) /\ content = PyNone)
          => renders = 0 /\ pc = "raised"
    /\ (pc = "raised" /\ renders >= 1) => RaisedWith(500)
    /\ renders <= 1

\* C9 witness: a payload that is not a document, under a valid name, ended
\* with 500 after one call of the renderer
C9_Witness ==
    /\ filename = "a.docx" /\ content = "not a document"
    /\ RaisedWith(500) /\ renders = 1 /\ reads = 1

\* how many of the renderer's messages carry a tag
Tagged(kind) ==
    Cardinality({i \in DOMAIN rendered.messages :
                     rendered.messages[i].type = kind})

\* C10: once the renderer has returned, convert_file returns a result and
\* never raises; the status is "success" exactly when no message is tagged
\* "error" and "success_with_errors" otherwise; errors_count and
\* warnings_count are the numbers of messages tagged "error" and "warning";
\* with no message at all the status is "success", both counts are 0 and
\* the summary is the fixed message.
C10_ResultAfterRender ==
    (rendered # Unset /\ pc # "assemble") =>
        /\ pc = "returned"
        /\ outcome.status = (IF Tagged("error") = 0 THEN "success"
                             ELSE "success_with_errors")
        /\ outcome.errors_count = Tagged("error")
        /\ outcome.warnings_count = Tagged("warning")
        /\ rendered.messages = <<>> =>
              /\ outcome.status = "success"
              /\ outcome.errors_count = 0 /\ outcome.warnings_count = 0
              /\ outcome.warning_summary = "Vse stili obrabotany uspeshno"

\* C10 witness: a result with one error and one warning was returned
C10_Witness ==
    /\ pc = "returned"
    /\ outcome.status = "success_with_errors"
    /\ outcome.errors_count = 1 /\ outcome.warnings_count = 1


----------------------------------------------------------------------------
(* Claims about the summary, under Spec: convert_file builds the summary  *)
(* from the analysis of the renderer's warnings                           *)

\* the parts of a text between occurrences of a separator, in order
RECURSIVE SplitOn(_, _)
SplitOn(sep, s) ==
    IF ~Contains(sep, s) THEN <<s>>
    ELSE LET i == CHOOSE i \in 1..(Len(s) - Len(sep) + 1) :
                      /\ SubSeq(s, i, i + Len(sep) - 1) = sep
                      /\ \A j \in 1..(i - 1) :
                            SubSeq(s, j, j + Len(sep) - 1) # sep
         IN  <<SubSeq(s, 1, i - 1)>>
                 \o SplitOn(sep, SubSeq(s, i + Len(sep), Len(s)))

\* the clause of a counted category
CountClause(label, lst) == label \o ": " \o ToString(Len(lst))

\* the fixed note for ignored table formatting
TableNote == "Formatirovanie tablic proignorirovano (ozhidaemo)"

\* the clauses of the categories the summary names, in the summary's order
NamedClauses(analysis) ==
    <<CountClause("Neopredelennye stili", analysis.undefined_styles),
      CountClause("Neraspoznannye stili", analysis.unrecognized_styles),
      TableNote,
      CountClause("Propushhennye elementy", analysis.missing_elements)>>

\* the members of lst that are members of allowed, in order
RECURSIVE Restrict(_, _)
Restrict(lst, allowed) ==
    IF lst = <<>> THEN <<>>
    ELSE IF In(Head(lst), allowed)
         THEN <<Head(lst)>> \o Restrict(Tail(lst), allowed)
         ELSE Restrict(Tail(lst), allowed)

\* C11: the summary of a returned result has, for each of the categories
\* undefined_styles, unrecognized_styles, missing_elements and
\* other_warnings that is not empty, a clause that carries the category's
\* count, and the fixed note without a count when table_formatting_ignored
\* is not empty; the clauses are separated by "; " and come in a fixed
\* order.
C11_SummaryListsEveryNonEmptyCategory ==
    pc = "returned" =>
        LET analysis == outcome.style_analysis
            clauses == SplitOn("; ", outcome.warning_summary)
            named == NamedClauses(analysis)
        IN  /\ analysis.undefined_styles # <<>> => In(named[1], clauses)
            /\ analysis.unrecognized_styles # <<>> => In(named[2], clauses)
            /\ analysis.table_formatting_ignored # <<>>
                  => In(TableNote, clauses)
            /\ analysis.missing_elements # <<>> => In(named[4], clauses)
            /\ analysis.other_warnings # <<>> =>
                  \E i \in DOMAIN clauses :
                      /\ ~In(clauses[i], named)
                      /\ EndsWith(clauses[i],
                                  ": " \o ToString(Len(analysis.other_warnings)))
            /\ IsSubsequence(Restrict(clauses, named), named)


\* C12: the summary of a result whose five category lists are all empty is
\* the fixed message; the summary of a result with n >= 1 undefined-style
\* warnings, m >= 1 unrecognized-style warnings and nothing in the other
\* three lists is "Neopredelennye stili: n; Neraspoznannye stili: m", the
\* undefined clause first.
C12_SummaryOfEmptyAndOfTwoCategories ==
    pc = "returned" =>
        LET analysis == outcome.style_analysis
            n == Len(analysis.undefined_styles)
            m == Len(analysis.unrecognized_styles)
            rest_empty == /\ analysis.missing_elements = <<>>
                          /\ analysis.table_formatting_ignored = <<>>
                          /\ analysis.other_warnings = <<>>
        IN  /\ (n = 0 /\ m = 0 /\ rest_empty)
                  => outcome.warning_summary = "Vse stili obrabotany uspeshno"
            /\ (n >= 1 /\ m >= 1 /\ rest_empty)
                  => outcome.warning_summary =
                         "Neopredelennye stili: " \o ToString(n) \o "; "
                             \o "Neraspoznannye stili: " \o ToString(m)

\* C12 witness: a result with one undefined-style warning and one
\* unrecognized-style warning carries the two-clause summary
C12_Witness ==
    /\ pc = "returned"
    /\ Len(outcome.style_analysis.undefined_styles) = 1
    /\ Len(outcome.style_analysis.unrecognized_styles) = 1
    /\ outcome.warnings_count = 2
    /\ outcome.warning_summary
           = "Neopredelennye stili: 1; Neraspoznannye stili: 1"


\* C13: convert_file ends with the status 500 only when the renderer's call
\* raised: an error raised at another step after validation (the read of
\* the upload is the one that can raise) is not turned into a 500.
C13_OnlyRendererErrorsBecomeConversionFailure ==
    /\ RaisedWith(500) => renders = 1
    /\ (pc = "raised" /\ reads = 1 /\ renders = 0) => ~RaisedWith(500)

============================================================================
